---- MODULE Spec2Model ----
(***************************************************************************)
(* supergrep: a pool of SearchWorker processes fed by one job queue, one   *)
(* reply pipe per submitted path, and the text / pdf / odt searches.       *)
(*                                                                         *)
(* Python values are modelled as follows.  A str is a sequence of one-     *)
(* character strings.  An Optional value is a sequence of length 0 (None)  *)
(* or 1 (the value).  An XML tree is a sequence of nodes, each naming its  *)
(* parent by position (0 for the root); the children of a node are the     *)
(* nodes that name it, in document order.                                  *)
(***************************************************************************)
EXTENDS Integers, Sequences, FiniteSets, TLC

VARIABLES
    search_term,   \* the PATTERN argument
    paths,         \* the PATHS argument
    pdftotext,     \* whether `which pdftotext` succeeds
    worker_count,  \* search: worker_count
    pc,            \* search: the statement the coordinator is at
    idx,           \* search: iterations done of the loop the coordinator is in
    job_queue,     \* search: job_queue, oldest entry first
    pipes,         \* search: pipes, the parent_conn ends in list order
    conn,          \* per pipe: the messages sent and not yet received
    wstate,        \* per worker: where the process is
    wjob,          \* per worker: the job its run loop holds
    received,      \* the values pipe.recv() returned, in order
    emitted,       \* the result sets handed to print_output, in order
    got,           \* history: the <<worker, job>> of every job_queue.get()
    sent,          \* history: every pipe.send(), the job it answered
    element,       \* search_odt: the parsed content.xml
    frames,        \* search_odt_element: the elements of the active calls
    visited,       \* search_odt_element: how many children each call has done
    sections,      \* search_odt_element: the shared sections list
    results,       \* search_odt_element: the shared results list
    odt,           \* search_odt: "idle", "walking" or "returned"
    arg,           \* SearchWorker.search alone: the file at filepath
    ret,           \* SearchWorker.search alone: what the call left behind
    call           \* SearchWorker.search alone: "idle" or "done"

poolvars == <<paths, pdftotext, worker_count, pc, idx, job_queue, pipes, conn,
              wstate, wjob, received, emitted, got, sent>>
odtvars == <<element, frames, visited, sections, results, odt>>
funvars == <<arg, ret, call>>
vars == <<search_term, poolvars, odtvars, funvars>>

(***************************************************************************)
(* Bounds of the model.                                                    *)
(***************************************************************************)
MaxPaths == 2
MaxCpus == 3
MaxNodes == 3
MaxLen == 4

None == <<>>
Some(x) == <<x>>

NL == "\n"
FF == "\f"
Whitespace == {" ", NL, FF}
\* The characters at which the reader of codecs.open ends a line
\* (str.splitlines): the line feed and the form feed are the two among Chars.
LineEnds == {NL, FF}

(***************************************************************************)
(* str operations of Python, on sequences of characters.                   *)
(***************************************************************************)

\* `term in s`: term occurs in s as a contiguous run of characters.
Contains(term, s) ==
    \E i \in 0..(Len(s) - Len(term)) : SubSeq(s, i + 1, i + Len(term)) = term

\* Position of the first sep in s, or 0.
RECURSIVE Find(_, _, _)
Find(s, sep, from) ==
    IF from > Len(s) THEN 0
    ELSE IF s[from] = sep THEN from
    ELSE Find(s, sep, from + 1)

\* s.split(sep) for a one-character sep: always at least one segment.
RECURSIVE Split(_, _)
Split(s, sep) ==
    LET at == Find(s, sep, 1) IN
    IF at = 0 THEN <<s>>
    ELSE <<SubSeq(s, 1, at - 1)>> \o Split(SubSeq(s, at + 1, Len(s)), sep)

\* Position of the first line end in s, or 0.
RECURSIVE FindLineEnd(_, _)
FindLineEnd(s, from) ==
    IF from > Len(s) THEN 0
    ELSE IF s[from] \in LineEnds THEN from
    ELSE FindLineEnd(s, from + 1)

\* Iterating a file opened with codecs.open: each line keeps its line end,
\* and the text after the last line end is a line when it is not empty.
RECURSIVE FileLines(_)
FileLines(s) ==
    LET at == FindLineEnd(s, 1) IN
    IF s = <<>> THEN <<>>
    ELSE IF at = 0 THEN <<s>>
    ELSE <<SubSeq(s, 1, at)>> \o FileLines(SubSeq(s, at + 1, Len(s)))

RECURSIVE LStrip(_)
LStrip(s) ==
    IF s # <<>> /\ s[1] \in Whitespace THEN LStrip(Tail(s)) ELSE s

RECURSIVE RStrip(_)
RStrip(s) ==
    IF s # <<>> /\ s[Len(s)] \in Whitespace
    THEN RStrip(SubSeq(s, 1, Len(s) - 1)) ELSE s

\* line.strip()
Strip(s) == RStrip(LStrip(s))

(***************************************************************************)
(* Data classes.                                                           *)
(***************************************************************************)

\* SearchResult(filepath, rtext=None, line_no=None, page_no=None,
\* sections=None).  `at` is not a field of the class: it records the
\* position in the tree of the element an odt result was made for.
SearchResult(filepath, rtext, line_no, page_no, secs, at) ==
    [filepath |-> filepath, rtext |-> rtext, line_no |-> line_no,
     page_no |-> page_no, sections |-> secs, at |-> at]

\* SearchResults(results, search_term, rtype)
SearchResults(res, term, rtype) ==
    [results |-> res, search_term |-> term, rtype |-> rtype]

\* What a call leaves behind: a returned value, or an exception.
Returned(value) == [raised |-> FALSE, value |-> value]
Raised == [raised |-> TRUE, value |-> None]

(***************************************************************************)
(* search_txt                                                              *)
(***************************************************************************)

\* The loop over enumerate(file_), from line number line_no on.
RECURSIVE TxtResults(_, _, _, _)
TxtResults(filepath, lines, line_no, term) ==
    IF lines = <<>> THEN <<>>
    ELSE (IF Contains(term, Head(lines))
          THEN <<SearchResult(filepath, Some(Head(lines)), Some(line_no),
                              None, None, 0)>>
          ELSE <<>>)
         \o TxtResults(filepath, Tail(lines), line_no + 1, term)

\* search_txt with the lines numbered from 1.
search_txtOneBased(filepath, file, term) ==
    LET res == TxtResults(filepath, FileLines(file.content), 1, term) IN
    IF ~file.ok THEN Raised
    ELSE IF res # <<>> THEN Returned(Some(SearchResults(res, term, "text")))
    ELSE Returned(None)

\* search_txt without the test `if results`.
search_txtAlways(filepath, file, term) ==
    LET res == TxtResults(filepath, FileLines(file.content), 0, term) IN
    IF ~file.ok THEN Raised
    ELSE Returned(Some(SearchResults(res, term, "text")))

\* codecs.open raises when the file cannot be decoded in the detected encoding.
search_txt(filepath, file, term) ==
    LET res == TxtResults(filepath, FileLines(file.content), 0, term) IN
    IF ~file.ok THEN Raised
    ELSE IF res # <<>> THEN Returned(Some(SearchResults(res, term, "text")))
    ELSE Returned(None)

(***************************************************************************)
(* search_pdf                                                              *)
(***************************************************************************)

\* The loop over page.split("\n") of one page.
RECURSIVE PageResults(_, _, _, _)
PageResults(filepath, lines, page_num, term) ==
    IF lines = <<>> THEN <<>>
    ELSE (IF Contains(term, Head(lines))
          THEN <<SearchResult(filepath, Some(Strip(Head(lines))), None,
                              Some(page_num), None, 0)>>
          ELSE <<>>)
         \o PageResults(filepath, Tail(lines), page_num, term)

\* The loop over enumerate(pages, start=1), from page number page_num on.
RECURSIVE PdfResults(_, _, _, _)
PdfResults(filepath, pages, page_num, term) ==
    IF pages = <<>> THEN <<>>
    ELSE PageResults(filepath, Split(Head(pages), NL), page_num, term)
         \o PdfResults(filepath, Tail(pages), page_num + 1, term)

\* search_pdf with the pages numbered from 0.
search_pdfZeroBased(filepath, file, term) ==
    LET res == PdfResults(filepath, Split(file.content, FF), 0, term) IN
    IF ~file.ok THEN Raised
    ELSE IF res # <<>> THEN Returned(Some(SearchResults(res, term, "pdf")))
    ELSE Returned(None)

\* file.content is what pdftotext writes to stdout; file.ok is returncode == 0.
search_pdf(filepath, file, term) ==
    LET res == PdfResults(filepath, Split(file.content, FF), 1, term) IN
    IF ~file.ok THEN Raised
    ELSE IF res # <<>> THEN Returned(Some(SearchResults(res, term, "pdf")))
    ELSE Returned(None)

(***************************************************************************)
(* search_odt and search_odt_element                                       *)
(***************************************************************************)

\* element.tag == qn("text:h")
IsHeading(node) == node.tag = "h"

\* `for child in element`: the children of the node at position el, in
\* document order, from position j on.
RECURSIVE ChildrenFrom(_, _, _)
ChildrenFrom(tree, el, j) ==
    IF j > Len(tree) THEN <<>>
    ELSE (IF tree[j].parent = el THEN <<j>> ELSE <<>>)
         \o ChildrenFrom(tree, el, j + 1)

Children(tree, el) == ChildrenFrom(tree, el, 1)

\* sections itself, not a copy.
SnapshotAlias(secs) == [live |-> TRUE, val |-> secs]

\* tuple(sections): a copy of the list as it is now.  A value that is
\* `live` stands for the list object itself and reads as its current content.
Snapshot(secs) == [live |-> FALSE, val |-> secs]

\* The section path a result shows when the shared list holds secs.
SectionsOf(result, secs) ==
    IF result.sections[1].live THEN secs ELSE result.sections[1].val

\* header_text = element.text, "" when it is None
HeaderText(node) == IF node.text = None THEN <<>> ELSE node.text[1]

\* The body with the heading's result made before sections.append.
OdtHeadCopyFirst(filepath, tree, el, term, secs, res) ==
    LET node == tree[el] IN
    IF IsHeading(node)
    THEN [sections |-> Append(secs, HeaderText(node)),
          results |->
              IF Contains(term, HeaderText(node))
              THEN Append(res, SearchResult(filepath, None, None, None,
                                            Some([live |-> FALSE, val |-> secs]), el))
              ELSE res]
    ELSE [sections |-> secs,
          results |->
              IF node.text # None /\ Contains(term, node.text[1])
              THEN Append(res, SearchResult(filepath, node.text, None, None,
                                            Some([live |-> FALSE, val |-> secs]), el))
              ELSE res]

\* The body of search_odt_element before its loop over the children.
OdtHead(filepath, tree, el, term, secs, res) ==
    LET node == tree[el]
        pushed == Append(secs, HeaderText(node))
    IN
    IF IsHeading(node)
    THEN [sections |-> pushed,
          results |->
              IF Contains(term, HeaderText(node))
              THEN Append(res, SearchResult(filepath, None, None, None,
                                            Some(Snapshot(pushed)), el))
              ELSE res]
    ELSE [sections |-> secs,
          results |->
              IF node.text # None /\ Contains(term, node.text[1])
              THEN Append(res, SearchResult(filepath, node.text, None, None,
                                            Some(Snapshot(secs)), el))
              ELSE res]

\* search_odt_element as one call: the lists as the call leaves them.
RECURSIVE search_odt_element(_, _, _, _, _, _)
RECURSIVE OdtChildren(_, _, _, _, _, _)
search_odt_element(filepath, tree, el, term, secs, res) ==
    LET head == OdtHead(filepath, tree, el, term, secs, res) IN
    OdtChildren(filepath, tree, Children(tree, el), term,
                head.sections, head.results)

\* The loop `for child in element` over the children kids still to visit.
OdtChildren(filepath, tree, kids, term, secs, res) ==
    IF kids = <<>> THEN [sections |-> secs, results |-> res]
    ELSE LET sub == search_odt_element(filepath, tree, Head(kids), term,
                                       secs, res)
         IN OdtChildren(filepath, tree, Tail(kids), term,
                        sub.sections, sub.results)

\* file.ok: the zip archive opens and content.xml parses; file.tree is the
\* parsed content.xml.
search_odt(filepath, file, term) ==
    LET res == search_odt_element(filepath, file.tree, 1, term, <<>>, <<>>).results
    IN
    IF ~file.ok THEN Raised
    ELSE IF res # <<>> THEN Returned(Some(SearchResults(res, term, "odt")))
    ELSE Returned(None)

(***************************************************************************)
(* The files the paths name, and SearchWorker.search.                      *)
(***************************************************************************)

TextTypes == {"text/plain", "text/html"}
PdfType == "application/pdf"
OdtType == "application/vnd.oasis.opendocument.text"

Node(tag, text, parent) == [tag |-> tag, text |-> text, parent |-> parent]

\* A file: the type libmagic reports, its text (the decoded content of a text
\* file, the stdout of pdftotext), its content.xml, whether reading it works
\* and whether searching it ever comes back.
File(mime, content, tree, ok, hang) ==
    [mime |-> mime, content |-> content, tree |-> tree, ok |-> ok, hang |-> hang]

NoTree == <<Node("p", None, 0)>>

\* H("b") > H("a") > p("ba"), then H("b") > p("a")
DocTree ==
    <<Node("p", None, 0),
      Node("h", Some(<<"b">>), 1),
      Node("h", Some(<<"a">>), 2),
      Node("p", Some(<<"b", "a">>), 3),
      Node("h", Some(<<"b">>), 1),
      Node("p", Some(<<"a">>), 5)>>

FS ==
    [name \in {"a.txt", "b.txt", "bad.txt", "ok.pdf", "bad.pdf", "hung.pdf",
               "doc.odt", "bad.odt", "img.png"} |->
        CASE name = "a.txt" ->
                File("text/plain", <<"a", NL, "b", NL, "b", "a">>, NoTree, TRUE, FALSE)
          [] name = "b.txt" ->
                File("text/html", <<"b", NL>>, NoTree, TRUE, FALSE)
          [] name = "bad.txt" ->
                File("text/plain", <<"a">>, NoTree, FALSE, FALSE)
          [] name = "ok.pdf" ->
                File(PdfType, <<"b", NL, FF, " ", "a", "b", " ", NL>>, NoTree, TRUE, FALSE)
          [] name = "bad.pdf" ->
                File(PdfType, <<>>, NoTree, FALSE, FALSE)
          [] name = "hung.pdf" ->
                File(PdfType, <<"a">>, NoTree, TRUE, TRUE)
          [] name = "doc.odt" ->
                File(OdtType, <<>>, DocTree, TRUE, FALSE)
          [] name = "bad.odt" ->
                File(OdtType, <<>>, NoTree, FALSE, FALSE)
          [] OTHER ->
                File("image/png", <<"a">>, NoTree, TRUE, FALSE)]

FileNames == DOMAIN FS

\* The files the runs of the pool are given, one for each way a search can
\* end: a text match, no match, an exception (the other unreadable files end
\* the same way), no end at all, an odt match, a type that is skipped.
Submitted == {"a.txt", "b.txt", "bad.pdf", "hung.pdf", "doc.odt", "img.png"}

\* A dispatch that raises for a type it has no branch for.
SearchFileStrict(filepath, file, term) ==
    IF file.mime \in TextTypes THEN search_txt(filepath, file, term)
    ELSE IF file.mime = PdfType THEN search_pdf(filepath, file, term)
    ELSE IF file.mime = OdtType THEN search_odt(filepath, file, term)
    ELSE Raised

\* The body of SearchWorker.search, given the file that filepath names.
SearchFile(filepath, file, term) ==
    IF file.mime \in TextTypes THEN search_txt(filepath, file, term)
    ELSE IF file.mime = PdfType THEN search_pdf(filepath, file, term)
    ELSE IF file.mime = OdtType THEN search_odt(filepath, file, term)
    ELSE Returned(None)

\* SearchWorker.search: what searching the file at filepath leaves behind.
search(filepath, term) == SearchFile(filepath, FS[filepath], term)

\* The patterns of the pool runs.
Patterns == {<<"a">>}

\* search, tabulated: what searching each file for each pattern leaves behind.
Searched == [filepath \in FileNames, term \in Patterns |-> search(filepath, term)]

(***************************************************************************)
(* The coordinator (the search command) and the SearchWorker processes.    *)
(***************************************************************************)

Max(a, b) == IF a >= b THEN a ELSE b

\* worker_count = max(1, cpu_count() - 1)
WorkerCount(cpus) == Max(1, cpus - 1)

MaxWorkers == WorkerCount(MaxCpus)
Workers == 1..worker_count

\* (path, child_conn) as put on the queue.  `idx` is not part of the tuple:
\* it records which iteration over paths made the job.
Job(path, child_conn, i) == [path |-> Some(path), conn |-> Some(child_conn), idx |-> i]

\* (None, None)
Sentinel == [path |-> None, conn |-> None, idx |-> 0]

\* One Pipe() made before the loop and shared by every job.
NewPipeShared(i) == 1

\* Pipe() in iteration i of the loop over paths: a pipe of its own.
NewPipe(i) == i

\* pipes.insert(0, parent_conn)
RecordPipeFront(list, parent_conn) == <<parent_conn>> \o list

\* pipes.append(parent_conn)
RecordPipe(list, parent_conn) == Append(list, parent_conn)

\* A put that places the entry at the head of the queue.
PutFront(queue, entry) == <<entry>> \o queue

\* job_queue.put(entry): the entry goes to the tail of the queue.
Put(queue, entry) == Append(queue, entry)

\* A get() that leaves the entry in the queue.
DequeueKeep(queue) == queue

\* job_queue.get(): the queue after the oldest entry was taken.
Dequeue(queue) == Tail(queue)

\* range(worker_count - 1)
SentinelCountShort(count) == count - 1

\* range(worker_count) of the sentinel loop
SentinelCount(count) == count

\* A join() that does not wait.
JoinedNoWait(w) == TRUE

\* worker.join() returns once the process has ended.
Joined(w) == wstate[w] \in {"exited", "crashed"}

\* A test that lets every reply through.
TruthyAll(return_value) == TRUE

\* `if return_value:`: None is false, a SearchResults object is true.
Truthy(return_value) == return_value # None

NoJob == Sentinel

PoolIdle ==
    /\ paths = <<>>
    /\ pdftotext = TRUE
    /\ worker_count = 1
    /\ pc = "idle"
    /\ idx = 0
    /\ job_queue = <<>>
    /\ pipes = <<>>
    /\ conn = <<>>
    /\ wstate = [w \in 1..1 |-> "new"]
    /\ wjob = [w \in 1..1 |-> NoJob]
    /\ received = <<>>
    /\ emitted = <<>>
    /\ got = {}
    /\ sent = <<>>

OdtIdle ==
    /\ element = NoTree
    /\ frames = <<>>
    /\ visited = <<>>
    /\ sections = <<>>
    /\ results = <<>>
    /\ odt = "idle"

FunIdle ==
    /\ arg = FS["img.png"]
    /\ ret = Returned(None)
    /\ call = "idle"

RECURSIVE SeqsUpTo(_, _)
SeqsUpTo(S, n) ==
    IF n = 0 THEN {<<>>}
    ELSE LET shorter == SeqsUpTo(S, n - 1) IN
         shorter \cup {Append(q, x) : q \in {r \in shorter : Len(r) = n - 1}, x \in S}

\* The state when the search command is entered.
Init ==
    /\ search_term \in Patterns
    /\ paths \in SeqsUpTo(Submitted, MaxPaths)
    /\ pdftotext \in BOOLEAN
    /\ \E cpus \in 1..MaxCpus : worker_count = WorkerCount(cpus)
    /\ pc = "check"
    /\ idx = 0
    /\ job_queue = <<>>
    /\ pipes = <<>>
    /\ conn = [c \in 1..Len(paths) |-> <<>>]
    /\ wstate = [w \in Workers |-> "new"]
    /\ wjob = [w \in Workers |-> NoJob]
    /\ received = <<>>
    /\ emitted = <<>>
    /\ got = {}
    /\ sent = <<>>
    /\ OdtIdle
    /\ FunIdle

\* A start that goes on whether or not pdftotext was found.
CheckDependencyIgnored ==
    /\ pc = "check"
    /\ pc' = "start"
    /\ UNCHANGED <<paths, pdftotext, worker_count, idx, job_queue, pipes, conn,
                   wstate, wjob, received, emitted, got, sent>>

\* check_call(("which", "pdftotext")), and job_queue = Queue()
CheckDependency ==
    /\ pc = "check"
    /\ pc' = IF pdftotext THEN "start" ELSE "click_exception"
    /\ UNCHANGED <<paths, pdftotext, worker_count, idx, job_queue, pipes, conn,
                   wstate, wjob, received, emitted, got, sent>>

\* for worker in workers: worker.start()
StartWorker ==
    /\ pc = "start"
    /\ wstate' = [wstate EXCEPT ![idx + 1] = "get"]
    /\ IF idx + 1 < worker_count
       THEN /\ idx' = idx + 1
            /\ pc' = pc
       ELSE /\ idx' = 0
            /\ pc' = IF paths = <<>> THEN "put_sentinels" ELSE "put_jobs"
    /\ UNCHANGED <<paths, pdftotext, worker_count, job_queue, pipes, conn,
                   wjob, received, emitted, got, sent>>

\* for path in paths: Pipe(); pipes.append(parent_conn); job_queue.put(...)
PutJob ==
    /\ pc = "put_jobs"
    /\ LET child_conn == NewPipe(idx + 1) IN
       /\ pipes' = RecordPipe(pipes, child_conn)
       /\ job_queue' = Put(job_queue, Job(paths[idx + 1], child_conn, idx + 1))
    /\ IF idx + 1 < Len(paths)
       THEN /\ idx' = idx + 1
            /\ pc' = pc
       ELSE /\ idx' = 0
            /\ pc' = "put_sentinels"
    /\ UNCHANGED <<paths, pdftotext, worker_count, conn, wstate, wjob,
                   received, emitted, got, sent>>

\* The phase after the sentinel loop.
AfterSentinels == IF pipes = <<>> THEN "join" ELSE "recv"

\* for _ in range(worker_count): job_queue.put((None, None))
PutSentinel ==
    /\ pc = "put_sentinels"
    /\ IF idx < SentinelCount(worker_count)
       THEN /\ job_queue' = Put(job_queue, Sentinel)
            /\ idx' = IF idx + 1 < SentinelCount(worker_count) THEN idx + 1 ELSE 0
            /\ pc' = IF idx + 1 < SentinelCount(worker_count) THEN pc ELSE AfterSentinels
       ELSE /\ job_queue' = job_queue
            /\ idx' = 0
            /\ pc' = AfterSentinels
    /\ UNCHANGED <<paths, pdftotext, worker_count, pipes, conn, wstate, wjob,
                   received, emitted, got, sent>>

\* A loop that reads whichever pipe holds a reply.
RecvAnyReady ==
    /\ pc = "recv"
    /\ \E pipe \in DOMAIN conn :
          /\ conn[pipe] # <<>>
          /\ LET msg == Head(conn[pipe]) IN
             /\ conn' = [conn EXCEPT ![pipe] = Tail(@)]
             /\ received' = Append(received, [conn |-> pipe, msg |-> msg])
             /\ emitted' = IF Truthy(msg.value)
                           THEN Append(emitted, [conn |-> pipe, msg |-> msg])
                           ELSE emitted
    /\ IF Len(received) + 1 < Len(pipes)
       THEN /\ idx' = idx
            /\ pc' = pc
       ELSE /\ idx' = 0
            /\ pc' = "join"
    /\ UNCHANGED <<paths, pdftotext, worker_count, job_queue, pipes, wstate,
                   wjob, got, sent>>

\* for pipe in pipes: return_value = pipe.recv(); print_output if it is true
Recv ==
    /\ pc = "recv"
    /\ LET pipe == pipes[idx + 1] IN
       /\ conn[pipe] # <<>>
       /\ LET msg == Head(conn[pipe]) IN
          /\ conn' = [conn EXCEPT ![pipe] = Tail(@)]
          /\ received' = Append(received, [conn |-> pipe, msg |-> msg])
          /\ emitted' = IF Truthy(msg.value)
                        THEN Append(emitted, [conn |-> pipe, msg |-> msg])
                        ELSE emitted
    /\ IF idx + 1 < Len(pipes)
       THEN /\ idx' = idx + 1
            /\ pc' = pc
       ELSE /\ idx' = 0
            /\ pc' = "join"
    /\ UNCHANGED <<paths, pdftotext, worker_count, job_queue, pipes, wstate,
                   wjob, got, sent>>

\* The worker that holds the other end of the pipe died before it sent.
Orphaned(pipe) ==
    /\ conn[pipe] = <<>>
    /\ \E w \in Workers : wstate[w] = "crashed" /\ wjob[w].conn = Some(pipe)

\* pipe.recv() on a pipe whose other end no live process holds raises
\* EOFError, which search does not catch.  While the coordinator itself
\* still refers to the other end, recv() blocks instead.
RecvEOF ==
    /\ pc = "recv"
    /\ Orphaned(pipes[idx + 1])
    /\ pc' = "eof_error"
    /\ UNCHANGED <<paths, pdftotext, worker_count, idx, job_queue, pipes, conn,
                   wstate, wjob, received, emitted, got, sent>>

\* for worker in workers: worker.join()
Join ==
    /\ pc = "join"
    /\ Joined(idx + 1)
    /\ IF idx + 1 < worker_count
       THEN /\ idx' = idx + 1
            /\ pc' = pc
       ELSE /\ idx' = 0
            /\ pc' = "returned"
    /\ UNCHANGED <<paths, pdftotext, worker_count, job_queue, pipes, conn,
                   wstate, wjob, received, emitted, got, sent>>

\* SearchWorker.run: job, pipe = self.job_queue.get(); break on (None, None)
Get(w) ==
    /\ wstate[w] = "get"
    /\ job_queue # <<>>
    /\ LET job == Head(job_queue) IN
       /\ job_queue' = Dequeue(job_queue)
       /\ got' = got \cup {<<w, job>>}
       /\ IF job.path = None
          THEN /\ wstate' = [wstate EXCEPT ![w] = "exited"]
               /\ wjob' = wjob
          ELSE /\ wstate' = [wstate EXCEPT ![w] = "search"]
               /\ wjob' = [wjob EXCEPT ![w] = job]
    /\ UNCHANGED <<paths, pdftotext, worker_count, pc, idx, pipes, conn,
                   received, emitted, sent>>

\* SearchWorker.run: result = self.search(job); pipe.send(result).  An
\* exception search raises is caught nowhere and ends the process.
Search(w) ==
    /\ wstate[w] = "search"
    /\ ~FS[wjob[w].path[1]].hang
    /\ LET outcome == Searched[wjob[w].path[1], search_term] IN
       IF outcome.raised
       THEN /\ wstate' = [wstate EXCEPT ![w] = "crashed"]
            /\ UNCHANGED <<conn, sent>>
       ELSE /\ conn' = [conn EXCEPT ![wjob[w].conn[1]] =
                           Append(@, [value |-> outcome.value, idx |-> wjob[w].idx])]
            /\ sent' = Append(sent, wjob[w])
            /\ wstate' = [wstate EXCEPT ![w] = "get"]
    /\ UNCHANGED <<paths, pdftotext, worker_count, pc, idx, job_queue, pipes,
                   wjob, received, emitted, got>>

\* A step of the pool leaves the pattern and the other runs alone.
Pool(A) == A /\ UNCHANGED <<search_term, odtvars, funvars>>

Next ==
    \/ Pool(CheckDependency)
    \/ Pool(StartWorker)
    \/ Pool(PutJob)
    \/ Pool(PutSentinel)
    \/ Pool(Recv)
    \/ Pool(RecvEOF)
    \/ Pool(Join)
    \/ \E w \in Workers : Pool(Get(w))
    \/ \E w \in Workers : Pool(Search(w))

Spec == Init /\ [][Next]_vars

\* The coordinator and the started workers are OS processes of their own:
\* while one of them can take a step, some step is taken.  Every process
\* does a bounded amount of work, so none is kept waiting for ever.
FairSpec == Spec /\ WF_vars(Next)

(***************************************************************************)
(* search_odt_element call by call: one search_odt over one document, the  *)
(* recursion unfolded into the stack of its active calls.                  *)
(***************************************************************************)

OdtPath == "doc.odt"

OdtTags == {"h", "p"}
OdtTexts == {None, Some(<<"a">>), Some(<<"b">>)}
OdtPatterns == {<<"a">>, <<>>}

\* Every tree of exactly n nodes: node j names a parent before it.
RECURSIVE TreesOfSize(_)
TreesOfSize(n) ==
    IF n = 0 THEN {<<>>}
    ELSE {Append(t, Node(tag, text, parent)) :
              t \in TreesOfSize(n - 1), tag \in OdtTags, text \in OdtTexts,
              parent \in (IF n = 1 THEN {0} ELSE 1..(n - 1))}

Trees == UNION {TreesOfSize(n) : n \in 1..MaxNodes}

OdtInit ==
    /\ search_term \in OdtPatterns
    /\ element \in Trees
    /\ frames = <<>>
    /\ visited = <<>>
    /\ sections = <<>>
    /\ results = <<>>
    /\ odt = "idle"
    /\ PoolIdle
    /\ FunIdle

\* A call of search_odt_element on the node at position el: the body up to
\* the loop, with the call pushed on the stack of active calls.
Enter(el) ==
    LET head == OdtHead(OdtPath, element, el, search_term, sections, results) IN
    /\ sections' = head.sections
    /\ results' = head.results
    /\ frames' = Append(frames, el)

\* search_odt: self.search_odt_element(filepath, content, [], [])
OdtStart ==
    /\ odt = "idle"
    /\ Enter(1)
    /\ visited' = <<0>>
    /\ odt' = "walking"
    /\ UNCHANGED element

\* for child in element: the call on the next child
OdtCall ==
    /\ odt = "walking"
    /\ LET top == Len(frames)
           kids == Children(element, frames[top])
       IN
       /\ visited[top] < Len(kids)
       /\ Enter(kids[visited[top] + 1])
       /\ visited' = Append([visited EXCEPT ![top] = @ + 1], 0)
    /\ UNCHANGED <<element, odt>>

\* return results: the loop over the children is done
OdtReturn ==
    /\ odt = "walking"
    /\ LET top == Len(frames) IN
       /\ visited[top] = Len(Children(element, frames[top]))
       /\ frames' = SubSeq(frames, 1, top - 1)
       /\ visited' = SubSeq(visited, 1, top - 1)
       /\ odt' = IF top = 1 THEN "returned" ELSE "walking"
    /\ UNCHANGED <<element, sections, results>>

OdtNext ==
    \/ OdtStart /\ UNCHANGED <<search_term, poolvars, funvars>>
    \/ OdtCall /\ UNCHANGED <<search_term, poolvars, funvars>>
    \/ OdtReturn /\ UNCHANGED <<search_term, poolvars, funvars>>

OdtSpec == OdtInit /\ [][OdtNext]_vars

(***************************************************************************)
(* SearchWorker.search alone: one call on one file, for every text, every  *)
(* pdftotext output and every content.xml within the bounds.               *)
(***************************************************************************)

FunPath == "file"

Chars == {"a", "b", " ", NL, FF}
Strings == SeqsUpTo(Chars, MaxLen)
FunPatterns == {<<"a">>, <<"a", "b">>, <<>>}

\* The files of every type: readable or not, none that hangs.
FunFiles ==
    {File(mime, content, NoTree, ok, FALSE) :
         mime \in {"text/plain", PdfType, "image/png"}, content \in Strings,
         ok \in BOOLEAN}
    \cup {File(OdtType, <<>>, tree, ok, FALSE) : tree \in Trees, ok \in BOOLEAN}

FunInit ==
    /\ search_term \in FunPatterns
    /\ arg \in FunFiles
    /\ ret = Returned(None)
    /\ call = "idle"
    /\ PoolIdle
    /\ OdtIdle

\* result = self.search(job), on the file arg
CallSearch ==
    /\ call = "idle"
    /\ ret' = SearchFile(FunPath, arg, search_term)
    /\ call' = "done"
    /\ UNCHANGED arg

FunNext == CallSearch /\ UNCHANGED <<search_term, poolvars, odtvars>>

FunSpec == FunInit /\ [][FunNext]_vars

(***************************************************************************)
(* Properties of the worker pool.                                          *)
(***************************************************************************)

\* Whether the job is a real one.
IsReal(job) == job.path # None

\* How often job number k is in the queue, and how often it was dequeued.
InQueue(k) == Cardinality({p \in DOMAIN job_queue : job_queue[p].idx = k})
Taken(k) == Cardinality({g \in got : g[2].idx = k})

\* How many sentinels worker w has dequeued.
SentinelsTaken(w) ==
    Cardinality({g \in got : g[1] = w /\ ~IsReal(g[2])})

\* How many messages were sent into pipe c.
SentOn(c) == Cardinality({p \in DOMAIN sent : sent[p].conn = Some(c)})

\* C1: the result sets reach the Presenter in path-submission order: a
\* result of a later path is never emitted before a result of an earlier one.
C1_SubmissionOrder ==
    \A i, j \in DOMAIN emitted :
        i < j => emitted[i].msg.idx < emitted[j].msg.idx

\* Two results were emitted although the later path's search finished first.
C1_Witness ==
    /\ Len(emitted) >= 2
    /\ \E p, q \in DOMAIN sent : p < q /\ sent[p].idx > sent[q].idx

C3_FailureIsolated ==
    /\ \A w \in Workers : wstate[w] # "crashed"
    /\ pc # "eof_error"

\* Whether worker w is still busy with the job.
Serving(w, job) == wstate[w] = "search" /\ wjob[w] = job

\* C4 (as claimed): once the search of a file has failed, a reply that is
\* not the `no match` value None was sent on that path's pipe, and the
\* coordinator does not abort.
C4_FailureReported ==
    /\ \A g \in got :
          LET w == g[1]
              job == g[2]
          IN
          (/\ IsReal(job)
           /\ Searched[job.path[1], search_term].raised
           /\ ~Serving(w, job))
          => \E q \in DOMAIN conn :
                 \/ \E m \in DOMAIN conn[q] :
                        conn[q][m].idx = job.idx /\ conn[q][m].value # None
                 \/ \E r \in DOMAIN received :
                        received[r].msg.idx = job.idx /\ received[r].msg.value # None
    /\ pc # "eof_error"

\* C5 (as claimed): the sentinels follow every real job in the queue,
\* worker_count of them are put, a worker whose process has ended has
\* dequeued exactly one sentinel, and no entry is left when the run is over.
C5_OneSentinelEach ==
    /\ \A p, q \in DOMAIN job_queue :
          (p < q /\ ~IsReal(job_queue[p])) => ~IsReal(job_queue[q])
    /\ pc \in {"recv", "join", "returned", "eof_error"} =>
          Cardinality({p \in DOMAIN job_queue : ~IsReal(job_queue[p])})
              + Cardinality({g \in got : ~IsReal(g[2])}) = worker_count
    /\ \A w \in Workers :
          wstate[w] \in {"exited", "crashed"} => SentinelsTaken(w) = 1
    /\ pc = "returned" => job_queue = <<>>

\* Every search of the run comes back with a value.
AllSearchesReturn ==
    \A i \in DOMAIN paths :
        /\ ~FS[paths[i]].hang
        /\ ~Searched[paths[i], search_term].raised

\* The run is over: every reply received, every worker out of its loop.
Finished ==
    /\ pc = "returned"
    /\ Len(received) = Len(paths)
    /\ \A w \in Workers : wstate[w] = "exited"

\* C6: when pdftotext is installed and every search returns, then under fair
\* scheduling the run finishes: all replies received, every worker exited.
C6_Terminates == (pc = "check" /\ pdftotext /\ AllSearchesReturn) ~> Finished

\* A finished run over the most paths with more than one worker.
C6_Witness ==
    /\ Finished
    /\ Len(paths) = MaxPaths
    /\ worker_count > 1

\* C7: when search has returned, every pipe was read and is empty and no
\* worker process is alive.
C7_ReturnAfterJoin ==
    pc = "returned" =>
        /\ Len(received) = Len(pipes)
        /\ \A c \in DOMAIN conn : conn[c] = <<>>
        /\ \A w \in Workers : wstate[w] \in {"exited", "crashed"}

\* search has returned from a run with paths and more than one worker.
C7_Witness ==
    /\ pc = "returned"
    /\ paths # <<>>
    /\ worker_count > 1
    /\ \E g \in got : IsReal(g[2]) /\ g[1] = worker_count

\* C8: at most one message is ever sent into a pipe, it answers the job of
\* the path the pipe was made for, and it is what searching that path
\* returns; the k-th value the coordinator receives is that of path k.
C8_OneReplyPerPipe ==
    /\ \A c \in DOMAIN conn :
          /\ SentOn(c) <= 1
          /\ \A m \in DOMAIN conn[c] :
                /\ conn[c][m].idx = c
                /\ conn[c][m].value = Searched[paths[c], search_term].value
    /\ \A k \in DOMAIN received :
          /\ received[k].conn = k
          /\ received[k].msg.idx = k
          /\ received[k].msg.value = Searched[paths[k], search_term].value
          /\ SentOn(k) = 1

\* Two replies were received that different workers sent, the later path's
\* first.
C8_Witness ==
    /\ Len(received) >= 2
    /\ \E p, q \in DOMAIN sent : p < q /\ sent[p].idx > sent[q].idx
    /\ \E g, h \in got : IsReal(g[2]) /\ IsReal(h[2]) /\ g[1] # h[1]

\* Whether the type of the k-th path is one search has a branch for.
KnownType(k) == FS[paths[k]].mime \in TextTypes \cup {PdfType, OdtType}

\* C15: a worker that searched a file of none of the three types sends None
\* on the pipe of that path and goes back to take a job, and nothing is
\* emitted for that path.
C15_UnknownTypeSkipped ==
    /\ [][\A w \in Workers :
            (/\ wstate[w] = "search"
             /\ ~KnownType(wjob[w].idx)
             /\ wstate'[w] # "search")
            => /\ wstate'[w] = "get"
               /\ conn'[wjob[w].conn[1]] =
                      Append(conn[wjob[w].conn[1]],
                             [value |-> None, idx |-> wjob[w].idx])
               /\ emitted' = emitted]_vars
    /\ [](\A k \in DOMAIN paths :
            ~KnownType(k) =>
                /\ \A w \in Workers :
                      wjob[w].idx = k => wstate[w] \in {"search", "get", "exited"}
                /\ \A e \in DOMAIN emitted : emitted[e].msg.idx # k)

\* A worker searched a file of another type, sent None, and took the next
\* job; the coordinator read that None and emitted nothing for it.
C15_Witness ==
    /\ \E w \in Workers : \E g, h \in got :
          /\ g[1] = w /\ h[1] = w
          /\ IsReal(g[2]) /\ IsReal(h[2])
          /\ g[2].idx < h[2].idx
          /\ ~KnownType(g[2].idx)
          /\ wstate[w] = "search"
    /\ \E r \in DOMAIN received :
          ~KnownType(received[r].msg.idx) /\ received[r].msg.value = None
    /\ emitted = <<>>

\* C16: when pdftotext is absent the command ends with the ClickException
\* before any work: no worker is started, no pipe is made, no job or
\* sentinel is put on the queue, nothing is dequeued and nothing searched.
C16_AbortBeforeWork ==
    ~pdftotext =>
        /\ pc \in {"check", "click_exception"}
        /\ \A w \in Workers : wstate[w] = "new"
        /\ job_queue = <<>>
        /\ pipes = <<>>
        /\ got = {}
        /\ sent = <<>>
        /\ received = <<>>

\* The command was given paths and ended with the ClickException.
C16_Witness ==
    /\ pc = "click_exception"
    /\ Len(paths) = MaxPaths
    /\ worker_count > 1

\* The search of path k has sent its reply.
Completed(k) == \E p \in DOMAIN sent : sent[p].idx = k

\* C17 (as claimed): while the search of path k has not completed, no result
\* of a path submitted before k is emitted.
C17_EarlierWithheld ==
    \A k \in DOMAIN paths :
        ~Completed(k) => \A e \in DOMAIN emitted : emitted[e].msg.idx >= k

\* C17 (amended): while the search of path k has not completed, no reply of
\* path k or of a path submitted after k is read or emitted, even when the
\* search of that path has finished.
C17_LaterWithheld ==
    \A k \in DOMAIN paths :
        ~Completed(k) =>
            /\ \A r \in DOMAIN received : received[r].msg.idx < k
            /\ \A e \in DOMAIN emitted : emitted[e].msg.idx < k

\* The coordinator waits for the reply of path k, which has not completed,
\* while the result of a later path lies unread in its pipe.
C17_Witness ==
    /\ pc = "recv"
    /\ ~Completed(idx + 1)
    /\ \E j \in DOMAIN paths :
          /\ j > idx + 1
          /\ Completed(j)
          /\ conn[pipes[j]] # <<>>
          /\ Truthy(Head(conn[pipes[j]]).value)

\* What the Presenter is handed once the replies of the first n paths were
\* read: a function of the pattern, the paths and the files alone.
RECURSIVE ExpectedStream(_)
ExpectedStream(n) ==
    IF n = 0 THEN <<>>
    ELSE ExpectedStream(n - 1)
         \o (IF Searched[paths[n], search_term].value # None
             THEN <<Searched[paths[n], search_term].value>>
             ELSE <<>>)

\* The values emitted so far.
EmittedValues == [e \in DOMAIN emitted |-> emitted[e].msg.value]

\* C19: whatever the worker count, the worker that served a job and the
\* order in which the searches ended, the sequence handed to the Presenter
\* is the one the pattern, the paths and the files determine, and it is
\* complete when search returns.
C19_StreamDetermined ==
    /\ EmittedValues = ExpectedStream(Len(received))
    /\ pc = "returned" => Len(received) = Len(paths)
    /\ pc = "eof_error" =>
           Searched[paths[Len(received) + 1], search_term].raised

\* search returned two result sets; different workers made them, and the
\* one of the second path was ready first.
C19_Witness ==
    /\ pc = "returned"
    /\ Len(emitted) = 2
    /\ sent[1].idx = 2
    /\ \E g, h \in got :
          /\ g[2].idx = 1 /\ h[2].idx = 2
          /\ g[1] > h[1]

\* A sentinel was dequeued.
SentinelDequeued == \E g \in got : ~IsReal(g[2])

\* C20: once a sentinel was dequeued no real job is in the queue; when no
\* search has failed and a worker has terminated, every path's job was put
\* on the queue and dequeued.
C20_JobsBeforeSentinels ==
    /\ SentinelDequeued =>
          /\ \A p \in DOMAIN job_queue : ~IsReal(job_queue[p])
          /\ pc \notin {"start", "put_jobs"}
    /\ (/\ \A w \in Workers : wstate[w] # "crashed"
        /\ \E w \in Workers : wstate[w] = "exited")
       => \A k \in DOMAIN paths : k \in DOMAIN pipes /\ Taken(k) = 1

\* A worker took a sentinel and ended while another one still searches the
\* last job.
C20_Witness ==
    /\ \E w \in Workers : wstate[w] = "exited"
    /\ \E w \in Workers : wstate[w] = "search" /\ wjob[w].idx = Len(paths)
    /\ Len(paths) = MaxPaths

\* The search of the k-th path never ends.
Hangs(k) == FS[paths[k]].hang

\* One of the paths hangs and searching any other returns a value.
OneHangs ==
    /\ Cardinality({k \in DOMAIN paths : Hangs(k)}) = 1
    /\ \A k \in DOMAIN paths : ~Searched[paths[k], search_term].raised

\* The search of every path that does not hang has sent its reply.
OthersCompleted == \A k \in DOMAIN paths : ~Hangs(k) => Completed(k)

\* C18 (as claimed): when the search of one file hangs for ever and no other
\* search fails, then for every worker count the search of every other path
\* comes to its end and its reply is put in its pipe.
C18_OthersComplete ==
    (pc = "check" /\ pdftotext /\ OneHangs) ~> OthersCompleted

(***************************************************************************)
(* Properties of the odt traversal.                                        *)
(***************************************************************************)

\* The texts of the headings on the way from the root to the node at
\* position el, that node included.
RECURSIVE HeadingPath(_, _)
HeadingPath(tree, el) ==
    IF el = 0 THEN <<>>
    ELSE HeadingPath(tree, tree[el].parent)
         \o (IF IsHeading(tree[el]) THEN <<HeaderText(tree[el])>> ELSE <<>>)

\* C9 (as claimed): the section path of every result is the texts of the
\* headings that are ancestors of, or are, the element it was made for.
C9_SectionPathIsAncestors ==
    \A k \in DOMAIN results :
        SectionsOf(results[k], sections) = HeadingPath(element, results[k].at)

\* C10: the section path of a result, once the result is in the list, is
\* the same after every further step of the traversal.
C10_SnapshotStable ==
    [][\A k \in DOMAIN results :
           /\ k \in DOMAIN results'
           /\ SectionsOf(results'[k], sections') = SectionsOf(results[k], sections)]_vars

\* The traversal is over and the list has changed since the first result.
C10_Witness ==
    /\ odt = "returned"
    /\ results # <<>>
    /\ SectionsOf(results[1], sections) # sections

\* The results the traversal made for the node at position el.
ResultsAt(el) == {k \in DOMAIN results : results[k].at = el}

\* Whether the node at position el is a heading whose text holds the term.
MatchingHeading(el) ==
    IsHeading(element[el]) /\ Contains(search_term, HeaderText(element[el]))

\* C11: after the traversal, every heading whose direct text (the empty
\* string when it has none) contains the term has exactly one result, whose
\* text is absent and whose section path ends with the heading's own text.
C11_HeadingResult ==
    odt = "returned" =>
        \A el \in DOMAIN element :
            MatchingHeading(el) =>
                /\ Cardinality(ResultsAt(el)) = 1
                /\ \A k \in ResultsAt(el) :
                      LET path == SectionsOf(results[k], sections) IN
                      /\ results[k].rtext = None
                      /\ path # <<>>
                      /\ path[Len(path)] = HeaderText(element[el])

\* The traversal is over; a heading below another heading matched, and so
\* did a heading without text.
C11_Witness ==
    /\ odt = "returned"
    /\ \E el \in DOMAIN element :
          /\ MatchingHeading(el)
          /\ el > 1
          /\ IsHeading(element[element[el].parent])
          /\ HeaderText(element[element[el].parent]) # HeaderText(element[el])
    /\ \E el \in DOMAIN element : MatchingHeading(el) /\ element[el].text = None

(***************************************************************************)
(* Properties of search on one file.                                       *)
(***************************************************************************)

\* The call of search has returned a value for a file of one of the types.
SearchReturned(types) == call = "done" /\ ~ret.raised /\ arg.mime \in types

\* The list of results of the value returned: none when the value is None.
ResultList == IF ret.value = None THEN <<>> ELSE ret.value[1].results

\* The number of members of S below b.
Before(S, b) == Cardinality({c \in S : c < b})

\* The lines of the text file, each named by the position of its first
\* character: a line runs up to and including the next line end.
LineStarts ==
    {b \in 1..Len(arg.content) : b = 1 \/ arg.content[b - 1] \in LineEnds}
LineStop(b) ==
    IF \E i \in b..Len(arg.content) : arg.content[i] \in LineEnds
    THEN CHOOSE i \in b..Len(arg.content) :
             /\ arg.content[i] \in LineEnds
             /\ \A j \in b..(i - 1) : arg.content[j] \notin LineEnds
    ELSE Len(arg.content)
LineText(b) == SubSeq(arg.content, b, LineStop(b))
LineNo(b) == Before(LineStarts, b)
MatchingLines == {b \in LineStarts : Contains(search_term, LineText(b))}

Separators == {i \in 1..Len(arg.content) : arg.content[i] \in {NL, FF}}
PdfLineStarts == {0} \cup Separators
PdfLineStop(b) ==
    IF \E i \in Separators : i > b
    THEN (CHOOSE i \in Separators :
              i > b /\ \A j \in Separators : j > b => i <= j) - 1
    ELSE Len(arg.content)
PdfLineText(b) == SubSeq(arg.content, b + 1, PdfLineStop(b))
PageOf(b) == 1 + Cardinality({i \in 1..b : arg.content[i] = FF})
MatchingPdfLines ==
    {b \in PdfLineStarts : Contains(search_term, PdfLineText(b))}

\* The text without its page breaks.
Unpaged(s) == SelectSeq(s, LAMBDA c : c # FF)

\* C13: each matching line of the converter's output has one result, with
\* the 1-indexed number of its page, and only a line that holds the whole
\* pattern inside one page has a result.
C13_PageAttribution ==
    SearchReturned({PdfType}) =>
        /\ Len(ResultList) = Cardinality(MatchingPdfLines)
        /\ \A b \in MatchingPdfLines :
              LET r == ResultList[Before(MatchingPdfLines, b) + 1] IN
              /\ r.page_no = Some(PageOf(b))
              /\ r.rtext = Some(Strip(PdfLineText(b)))
        /\ (\A page \in DOMAIN Split(arg.content, FF) :
                ~Contains(search_term, Split(arg.content, FF)[page]))
           => ret.value = None

\* The pattern lies across a page break of the output, and nothing is found.
C13_Witness ==
    /\ SearchReturned({PdfType})
    /\ Contains(search_term, Unpaged(arg.content))
    /\ ~Contains(search_term, arg.content)
    /\ \E i \in 2..Len(arg.content) :
          /\ arg.content[i] = FF
          /\ SubSeq(arg.content, i - 1, i + 1) = <<"a", FF, "b">>
    /\ ret.value = None

\* C14: for every format, a result set that search returns holds at least
\* one result: a file without a match gives None.
C14_NeverEmptySet ==
    (call = "done" /\ ~ret.raised /\ ret.value # None) =>
        ret.value[1].results # <<>>

\* A readable file that holds text and has no match: search gave None.
C14_Witness ==
    /\ SearchReturned(TextTypes \cup {PdfType})
    /\ arg.content # <<>>
    /\ search_term # <<>>
    /\ ~Contains(search_term, arg.content)
    /\ ret.value = None

====
